---- MODULE Spec2Model ----
(***************************************************************************)
(* Model of the semiotic-blog front end: the post catalog (blogPosts), the *)
(* content table (blogContent), the post page (BlogPost, the "Resolver")   *)
(* and the listing (BlogGrid, the "Listing Partition").                    *)
(*                                                                         *)
(* JavaScript values that can be something other than a record of the      *)
(* catalog are tagged: Undefined, Str(s), Inherited(k).  A catalog record  *)
(* is a TLA+ record; the optional field "featured" is either present (a    *)
(* boolean) or not in the record's domain.                                 *)
(***************************************************************************)
EXTENDS Integers, Sequences, FiniteSets, TLC

VARIABLES catalog, contentTable, route, view, initial

vars == <<catalog, contentTable, route, view, initial>>

----------------------------------------------------------------------------
(* Bounds of the model                                                     *)

\* Longest generated catalog.
MaxPosts == 2

\* The page views (browser tabs / concurrent renders) of the model.
Requests == {"r1", "r2"}

\* Identifiers used by the generated tables.  "constructor" is the name of
\* a member every object literal inherits from Object.prototype.
PostIds == {"sum-check", "constructor"}

\* Identifiers the routing layer may supply (besides no identifier at all).
Slugs == PostIds \cup {"does-not-exist"}

\* Titles of the generated records, by position: the records of a generated
\* catalog are pairwise distinct even when their ids are equal.
Titles == <<"A", "B", "C", "D">>

----------------------------------------------------------------------------
(* JavaScript values                                                       *)

Undefined == [type |-> "undefined"]

Str(s) == [type |-> "string", val |-> s]

\* A non-string member found on the prototype chain (a function or object).
Inherited(k) == [type |-> "inherited", key |-> k]

\* The property names every plain object inherits from Object.prototype.
ObjectPrototypeKeys ==
    {"constructor", "toString", "toLocaleString", "valueOf", "hasOwnProperty",
     "isPrototypeOf", "propertyIsEnumerable", "__proto__",
     "__defineGetter__", "__defineSetter__", "__lookupGetter__",
     "__lookupSetter__"}

\* ToBoolean: undefined and "" are falsy; objects, functions and non-empty
\* strings are truthy.
Truthy(v) ==
    IF "type" \notin DOMAIN v THEN TRUE
    ELSE IF v.type = "undefined" THEN FALSE
    ELSE IF v.type = "string" THEN v.val # ""
    ELSE TRUE

\* obj[k] on an object literal: the own property, else the inherited member,
\* else undefined.
GetProperty(obj, k) ==
    IF k \in DOMAIN obj THEN Str(obj[k])
    ELSE IF k \in ObjectPrototypeKeys THEN Inherited(k)
    ELSE Undefined

\* The elements of an array.
Elements(arr) == { arr[i] : i \in DOMAIN arr }

\* Array.prototype.find: the first element passing the test, else undefined.
\* The callback is given as the function from each element of the array to
\* the truthiness of the callback's result.
\* Variant of ArrayFind returning the last element passing the test.
ArrayFindLast(arr, test) ==
    IF \E i \in DOMAIN arr : test[arr[i]]
    THEN arr[CHOOSE i \in DOMAIN arr :
                 /\ test[arr[i]]
                 /\ \A j \in DOMAIN arr : test[arr[j]] => j <= i]
    ELSE Undefined

ArrayFind(arr, test) ==
    IF \E i \in DOMAIN arr : test[arr[i]]
    THEN arr[CHOOSE i \in DOMAIN arr :
                 /\ test[arr[i]]
                 /\ \A j \in DOMAIN arr : test[arr[j]] => i <= j]
    ELSE Undefined

\* Array.prototype.filter: a new array of the elements passing the test, in
\* order; the receiver is left as it is.
ArrayFilter(arr, test) == SelectSeq(arr, LAMBDA p : test[p])

----------------------------------------------------------------------------
(* The shipped tables                                                      *)

\* Variant of blogPosts: the second record was pasted from the first and its
\* id left as it was.
blogPostsPastedId ==
    << [id |-> "cctp-rs",
        title |-> "Building cctp-rs: A Production-Grade Rust SDK for Cross-Chain USDC Transfers",
        category |-> "Payments & Settlement", featured |-> TRUE],
       [id |-> "cctp-rs",
        title |-> "Verifiable Extraction in The Graph",
        category |-> "Cryptography & Security"],
       [id |-> "sum-check",
        title |-> "Introduction to the Sum-Check Protocol",
        category |-> "Cryptography & Security"] >>

\* Variant of blogPosts: the newest record is marked featured while the
\* previous featured record keeps its flag.
blogPostsTwoFeatured ==
    << [id |-> "cctp-rs",
        title |-> "Building cctp-rs: A Production-Grade Rust SDK for Cross-Chain USDC Transfers",
        category |-> "Payments & Settlement", featured |-> TRUE],
       [id |-> "verifiable-extraction",
        title |-> "Verifiable Extraction in The Graph",
        category |-> "Cryptography & Security"],
       [id |-> "sum-check",
        title |-> "Introduction to the Sum-Check Protocol",
        category |-> "Cryptography & Security", featured |-> TRUE] >>

\* src/data/blogPosts.ts: id, title, category and the optional featured flag
\* of each record (excerpt, image and url are opaque to the pages modelled).
blogPosts ==
    << [id |-> "cctp-rs",
        title |-> "Building cctp-rs: A Production-Grade Rust SDK for Cross-Chain USDC Transfers",
        category |-> "Payments & Settlement", featured |-> TRUE],
       [id |-> "verifiable-extraction",
        title |-> "Verifiable Extraction in The Graph",
        category |-> "Cryptography & Security"],
       [id |-> "homomorphic-signatures",
        title |-> "Homomorphic Signatures for Payment Channels",
        category |-> "Cryptography & Security"],
       [id |-> "automated-query-pricing",
        title |-> "Automated Query Pricing in The Graph",
        category |-> "AI & Optimization"],
       [id |-> "indexer-allocation-2",
        title |-> "Indexer Allocation Optimization: Part II",
        category |-> "Optimization"],
       [id |-> "amm-overview",
        title |-> "An Overview of Automatic Market Maker Mechanisms",
        category |-> "DeFi"],
       [id |-> "psi-fhe",
        title |-> "PSI with FHE",
        category |-> "Cryptography & Security"],
       [id |-> "crypto-meta-analysis",
        title |-> "2024 Crypto Meta-Analysis",
        category |-> "Research"],
       [id |-> "indexer-allocation-1",
        title |-> "Indexer Allocation Optimization: Part I",
        category |-> "Optimization"],
       [id |-> "sum-check",
        title |-> "Introduction to the Sum-Check Protocol",
        category |-> "Cryptography & Security"] >>

\* Variant of blogContent: the key of the last entry is misspelt.
blogContentTypo ==
    ("cctp-rs" :> "_How we built an open-source library")
    @@ ("verifiable-extraction" :> "The Graph is a decentralized protocol")
    @@ ("homomorphic-signatures" :> "_This post was co-authored by")
    @@ ("automated-query-pricing" :> "## TL;DR")
    @@ ("indexer-allocation-2" :> "_This article was co-authored by")
    @@ ("amm-overview" :> "## TL;DR")
    @@ ("psi-fhe" :> "_This work was done by")
    @@ ("crypto-meta-analysis" :> "## Introduction")
    @@ ("indexer-allocation-1" :> "_This article was co-authored by")
    @@ ("sumcheck" :> "### TL;DR")

\* blogContent: each key with the opening words of its body (every shipped
\* body is a non-empty string; the rest of the text is opaque to the pages).
blogContent ==
    ("cctp-rs" :> "_How we built an open-source library")
    @@ ("verifiable-extraction" :> "The Graph is a decentralized protocol")
    @@ ("homomorphic-signatures" :> "_This post was co-authored by")
    @@ ("automated-query-pricing" :> "## TL;DR")
    @@ ("indexer-allocation-2" :> "_This article was co-authored by")
    @@ ("amm-overview" :> "## TL;DR")
    @@ ("psi-fhe" :> "_This work was done by")
    @@ ("crypto-meta-analysis" :> "## Introduction")
    @@ ("indexer-allocation-1" :> "_This article was co-authored by")
    @@ ("sum-check" :> "### TL;DR")

----------------------------------------------------------------------------
(* The pages                                                               *)

\* Variant of useParams: every request reads one shared "current slug", the
\* one of a fixed request, instead of its own route.
useParamsShared(r) == route[CHOOSE q \in Requests : TRUE].slug

\* useParams<{ slug: string }>(): the identifier part of the request's
\* route, a string or undefined.
useParams(r) == route[r].slug

\* Variant of NotFoundView: the link of the fallback view points to "/blog",
\* a path no page is routed at.
NotFoundViewDeadLink ==
    [kind |-> "notFound", heading |-> "Post not found", backLink |-> "/blog"]

\* The fallback view of the post page: a heading and a link back to "/".
NotFoundView ==
    [kind |-> "notFound", heading |-> "Post not found", backLink |-> "/"]

\* The post page for a catalog record and a body.
FoundView(post, content) ==
    [kind |-> "found", post |-> post, content |-> content, backLink |-> "/"]

\* Variant of CatalogLookup: the callback compares the record's title, not
\* its id, with the identifier.
CatalogLookupByTitle(slug, posts) ==
    ArrayFind(posts, [p \in Elements(posts) |->
                        slug.type = "string" /\ p.title = slug.val])

\* blogPosts.find((p) => p.id === slug): the first record whose id is the
\* identifier, else undefined.  No id is === undefined.
CatalogLookup(slug, posts) ==
    ArrayFind(posts, [p \in Elements(posts) |->
                        slug.type = "string" /\ p.id = slug.val])

\* Variant of ContentLookup: blogContent[slug] without the guard; an
\* undefined slug is converted to the property key "undefined".
ContentLookupNoGuard(slug, content) ==
    GetProperty(content, IF slug.type = "string" THEN slug.val ELSE "undefined")

\* slug ? blogContent[slug] : undefined
ContentLookup(slug, content) ==
    IF Truthy(slug) THEN GetProperty(content, slug.val) ELSE Undefined

\* Variant of BlogPost: the fallback view tells a missing record from a
\* missing body.
BlogPostLeaky(slug, posts, content) ==
    LET MatchesSlug(p) == slug.type = "string" /\ p.id = slug.val
        post == ArrayFind(posts, [p \in Elements(posts) |-> MatchesSlug(p)])
        body == IF Truthy(slug) THEN GetProperty(content, slug.val)
                ELSE Undefined
    IN  IF ~Truthy(post)
        THEN [NotFoundView EXCEPT !.heading = "Post not found"]
        ELSE IF ~Truthy(body)
        THEN [NotFoundView EXCEPT !.heading = "Content not found"]
        ELSE FoundView(post, body)

\* Variant of BlogPost: post.title is read before the guard, a TypeError
\* when no record matches.
BlogPostThrows(slug, posts, content) ==
    LET MatchesSlug(p) == slug.type = "string" /\ p.id = slug.val
        post == ArrayFind(posts, [p \in Elements(posts) |-> MatchesSlug(p)])
        body == IF Truthy(slug) THEN GetProperty(content, slug.val)
                ELSE Undefined
    IN  IF ~Truthy(post)
        THEN [kind |-> "error", name |-> "TypeError"]
        ELSE IF ~Truthy(body) THEN NotFoundView
        ELSE FoundView(post, body)

\* Variant of BlogPost: the body is looked up under the record's title
\* instead of the identifier.
BlogPostContentByTitle(slug, posts, content) ==
    LET post == CatalogLookup(slug, posts)
        body == IF Truthy(post) THEN GetProperty(content, post.title)
                ELSE Undefined
    IN  IF ~Truthy(post) \/ ~Truthy(body)
        THEN NotFoundView
        ELSE FoundView(post, body)

\* The BlogPost component over the tables posts and content.
BlogPost(slug, posts, content) ==
    LET post == CatalogLookup(slug, posts)
        body == ContentLookup(slug, content)
    IN  IF ~Truthy(post) \/ ~Truthy(body)
        THEN NotFoundView
        ELSE FoundView(post, body)

\* Variant of IsFeatured: (p) => p.featured !== false, an omitted flag
\* counts as featured.
IsFeaturedUnlessFalse(p) == "featured" \notin DOMAIN p \/ p.featured

\* (p) => p.featured, as a condition: an omitted flag is undefined, falsy.
IsFeatured(p) == "featured" \in DOMAIN p /\ p.featured

\* Variant of NotFeatured: (p) => p.featured === false, a record without the
\* flag does not pass.
NotFeaturedStrict(p) == "featured" \in DOMAIN p /\ p.featured = FALSE

\* (p) => !p.featured
NotFeatured(p) == ~IsFeatured(p)

\* Variant of BlogCard: the link is built from the record's title.
BlogCardLinkTitle(post, featured) ==
    [post |-> post, featured |-> featured, to |-> <<"blog", post.title>>]

\* <BlogCard post featured />: the presentation and the link of a card.
BlogCard(post, featured) ==
    [post |-> post, featured |-> featured, to |-> <<"blog", post.id>>]

\* Variant of BlogGrid: the featured card is rendered after the cards of
\* the rest.
\* Variant of BlogGrid passing the featured prop to every card.
BlogGridAllFeatured(posts) ==
    LET featured == ArrayFind(posts, [p \in Elements(posts) |-> IsFeatured(p)])
        rest == ArrayFilter(posts, [p \in Elements(posts) |-> NotFeatured(p)])
    IN  [kind |-> "listing",
         featured |-> featured,
         rest |-> rest,
         cards |-> (IF Truthy(featured)
                    THEN <<BlogCard(featured, TRUE)>> ELSE <<>>)
                   \o [i \in 1..Len(rest) |->
                          BlogCard(rest[i], Truthy(featured))]]

BlogGridFeaturedLast(posts) ==
    LET featured == ArrayFind(posts, [p \in Elements(posts) |-> IsFeatured(p)])
        rest == ArrayFilter(posts, [p \in Elements(posts) |-> NotFeatured(p)])
    IN  [kind |-> "listing",
         featured |-> featured,
         rest |-> rest,
         cards |-> [i \in 1..Len(rest) |-> BlogCard(rest[i], FALSE)]
                   \o (IF Truthy(featured)
                       THEN <<BlogCard(featured, TRUE)>> ELSE <<>>)]

\* Variant of BlogGrid: the rest is the whole catalog, the featured record
\* is not filtered out of it.
BlogGridNoFilter(posts) ==
    LET featured == ArrayFind(posts, [p \in Elements(posts) |-> IsFeatured(p)])
        rest == posts
    IN  [kind |-> "listing",
         featured |-> featured,
         rest |-> rest,
         cards |-> (IF Truthy(featured)
                    THEN <<BlogCard(featured, TRUE)>> ELSE <<>>)
                   \o [i \in 1..Len(rest) |-> BlogCard(rest[i], FALSE)]]

\* The BlogGrid component over the catalog posts: the featured record, the
\* rest, and the cards in display order.
BlogGrid(posts) ==
    LET featured == ArrayFind(posts, [p \in Elements(posts) |-> IsFeatured(p)])
        rest == ArrayFilter(posts, [p \in Elements(posts) |-> NotFeatured(p)])
    IN  [kind |-> "listing",
         featured |-> featured,
         rest |-> rest,
         cards |-> (IF Truthy(featured)
                    THEN <<BlogCard(featured, TRUE)>> ELSE <<>>)
                   \o [i \in 1..Len(rest) |-> BlogCard(rest[i], FALSE)]]

----------------------------------------------------------------------------
(* Initial states                                                          *)

\* A generated record: id, title, and the featured flag true, false or
\* omitted.
MkPost(id, title, flag) ==
    IF flag = "omitted" THEN [id |-> id, title |-> title]
    ELSE [id |-> id, title |-> title, featured |-> (flag = "true")]

FlagChoices == {"true", "false", "omitted"}

\* The catalogs of n records over PostIds with every choice of flags.
CatalogsOfLen(n) ==
    { [i \in 1..n |-> MkPost(ids[i], Titles[i], flags[i])] :
        ids \in [1..n -> PostIds], flags \in [1..n -> FlagChoices] }

BoundedCatalogs == UNION { CatalogsOfLen(n) : n \in 0..MaxPosts }

\* A non-empty body for a generated content entry.
SampleBody(k) == IF k = "sum-check" THEN "### TL;DR" ELSE "## Introduction"

\* The content tables over PostIds: each key absent, or present with an
\* empty or a non-empty body.
BoundedTables ==
    UNION { { [k \in K |-> IF k \in E THEN "" ELSE SampleBody(k)] :
                E \in SUBSET K } : K \in SUBSET PostIds }

\* The catalog [A, B (featured), C] of three distinct records.
ScenarioCatalog ==
    << [id |-> "a", title |-> "A", featured |-> FALSE],
       [id |-> "b", title |-> "B", featured |-> TRUE],
       [id |-> "c", title |-> "C", featured |-> FALSE] >>

\* A pair of tables whose only identifier is the string "undefined".
UndefinedKeyTables ==
    << <<[id |-> "undefined", title |-> "A"]>>,
       [k \in {"undefined"} |-> "## Introduction"] >>

\* The pairs of tables the model starts from: the shipped pair, the scenario
\* catalog, the pair keyed "undefined", and every generated pair.
TablePairs ==
    {<<blogPosts, blogContent>>, <<ScenarioCatalog, blogContent>>,
     UndefinedKeyTables}
    \cup (BoundedCatalogs \X BoundedTables)

IndexRoute == [page |-> "index", slug |-> Undefined]

PostRoute(slug) == [page |-> "post", slug |-> slug]

\* The route a <Link to=...> of the post page leads to: the listing is
\* routed at "/"; any other such path matches no page.
LinkTarget(to) ==
    IF to = "/" THEN IndexRoute ELSE [page |-> "unmatched", slug |-> Undefined]

\* The route the link of a card leads to: the post page is routed at
\* /blog/<slug>, the second segment of the path being the identifier.
CardTarget(to) ==
    IF Len(to) = 2 /\ to[1] = "blog" THEN PostRoute(Str(to[2]))
    ELSE [page |-> "unmatched", slug |-> Undefined]

\* No view rendered yet for the current route.
NoView == [kind |-> "none"]

\* The process starts with one of the given pairs of tables, every request
\* at the listing route with nothing rendered yet.
InitWith(pairs) ==
    /\ \E tp \in pairs :
          /\ catalog = tp[1]
          /\ contentTable = tp[2]
          /\ initial = [posts |-> tp[1], content |-> tp[2]]
    /\ route = [r \in Requests |-> IndexRoute]
    /\ view = [r \in Requests |-> NoView]

Init == InitWith(TablePairs)

\* The pairs of tables of the fair specification: the shipped pair, the
\* scenario catalog, and every generated catalog with the empty content
\* table and with the content table that has a body for every id.
FairTablePairs ==
    {<<blogPosts, blogContent>>, <<ScenarioCatalog, blogContent>>}
    \cup (BoundedCatalogs
            \X {[k \in {} |-> ""], [k \in PostIds |-> SampleBody(k)]})

FairInit == InitWith(FairTablePairs)

----------------------------------------------------------------------------
(* Actions                                                                 *)

\* The routing layer hands request r the listing route.
NavigateIndex(r) ==
    /\ route' = [route EXCEPT ![r] = IndexRoute]
    /\ view' = [view EXCEPT ![r] = NoView]
    /\ UNCHANGED <<catalog, contentTable, initial>>

\* The routing layer hands request r a post route with an identifier from
\* the URL, or with none.
NavigatePost(r) ==
    /\ \E slug \in {Str(s) : s \in Slugs} \cup {Undefined} :
          route' = [route EXCEPT ![r] = PostRoute(slug)]
    /\ view' = [view EXCEPT ![r] = NoView]
    /\ UNCHANGED <<catalog, contentTable, initial>>

\* The reader of request r follows the "Back to blog" link of the rendered
\* post page, found or not found.
FollowBackLink(r) ==
    /\ view[r].kind \in {"found", "notFound"}
    /\ route' = [route EXCEPT ![r] = LinkTarget(view[r].backLink)]
    /\ view' = [view EXCEPT ![r] = NoView]
    /\ UNCHANGED <<catalog, contentTable, initial>>

\* The reader of request r follows the link of one of the cards of the
\* rendered listing.
FollowCard(r) ==
    /\ view[r].kind = "listing"
    /\ \E k \in DOMAIN view[r].cards :
          route' = [route EXCEPT ![r] = CardTarget(view[r].cards[k].to)]
    /\ view' = [view EXCEPT ![r] = NoView]
    /\ UNCHANGED <<catalog, contentTable, initial>>

\* Variant of RenderPost: the render waits until no other request is
\* pending (a lock on the tables).
RenderPostWaits(r) ==
    /\ route[r].page = "post"
    /\ \A q \in Requests \ {r} : view[q].kind # "none"
    /\ view' = [view EXCEPT
                  ![r] = BlogPost(useParams(r), catalog, contentTable)]
    /\ UNCHANGED <<catalog, contentTable, route, initial>>

\* Variant of RenderPost: the page is written to one output shared by all
\* requests.
RenderPostSharedView(r) ==
    /\ route[r].page = "post"
    /\ view' = [q \in Requests |->
                  BlogPost(useParams(r), catalog, contentTable)]
    /\ UNCHANGED <<catalog, contentTable, route, initial>>

\* Request r renders the post page: BlogPost, start to end.
RenderPost(r) ==
    /\ route[r].page = "post"
    /\ view' = [view EXCEPT
                  ![r] = BlogPost(useParams(r), catalog, contentTable)]
    /\ UNCHANGED <<catalog, contentTable, route, initial>>

\* Variant of RenderIndex: the featured records are removed from the
\* catalog itself (an in-place splice) instead of filtered into a new array.
RenderIndexSplice(r) ==
    /\ route[r].page = "index"
    /\ view' = [view EXCEPT ![r] = BlogGrid(catalog)]
    /\ catalog' = ArrayFilter(catalog,
                           [p \in Elements(catalog) |-> NotFeatured(p)])
    /\ UNCHANGED <<contentTable, route, initial>>

\* Request r renders the listing page: Index with its BlogGrid.
RenderIndex(r) ==
    /\ route[r].page = "index"
    /\ view' = [view EXCEPT ![r] = BlogGrid(catalog)]
    /\ UNCHANGED <<catalog, contentTable, route, initial>>

Next ==
    \E r \in Requests :
        \/ NavigateIndex(r)
        \/ NavigatePost(r)
        \/ FollowBackLink(r)
        \/ FollowCard(r)
        \/ RenderPost(r)
        \/ RenderIndex(r)

Spec == Init /\ [][Next]_vars

\* A routed page is rendered: the component of the request's route runs, and
\* runs to its return, whatever the other requests do.
FairSpec ==
    /\ FairInit /\ [][Next]_vars
    /\ \A r \in Requests : WF_vars(RenderPost(r) \/ RenderIndex(r))

----------------------------------------------------------------------------
(* Vocabulary of the properties                                            *)

\* Request r shows a rendered post page / a rendered listing.
PostRendered(r) == route[r].page = "post" /\ view[r].kind # "none"

ListingRendered(r) == route[r].page = "index" /\ view[r].kind = "listing"

\* The identifier is the id of a record of the catalog / a key of the
\* content table.
HasRecord(slug) ==
    slug.type = "string" /\ \E i \in DOMAIN catalog : catalog[i].id = slug.val

HasContent(slug) == slug.type = "string" /\ slug.val \in DOMAIN contentTable

\* The positions of the records marked featured.
FeaturedAt == { i \in DOMAIN catalog :
                  "featured" \in DOMAIN catalog[i] /\ catalog[i].featured = TRUE }

MinOf(S) == CHOOSE i \in S : \A j \in S : i <= j

RemoveAt(seq, i) == SubSeq(seq, 1, i - 1) \o SubSeq(seq, i + 1, Len(seq))

\* The tables are the ones the process started with.
TablesUnchanged ==
    catalog = initial.posts /\ contentTable = initial.content

\* The page a route yields when it is the only request ever rendered.
PageAlone(rt) ==
    IF rt.page = "post"
    THEN BlogPost(rt.slug, initial.posts, initial.content)
    ELSE BlogGrid(initial.posts)

----------------------------------------------------------------------------
(* Properties                                                              *)

\* C1: for every identifier that is the id of a catalog record and a key of
\* the content table, the post page is the found view, showing a catalog
\* record with that id and the body stored under that id.
C1_ResolvesWhenInBoth ==
    \A r \in Requests :
        (PostRendered(r) /\ HasRecord(useParams(r)) /\ HasContent(useParams(r)))
        => /\ view[r].kind = "found"
           /\ \E i \in DOMAIN catalog :
                 catalog[i].id = useParams(r).val /\ view[r].post = catalog[i]
           /\ view[r].content = Str(contentTable[useParams(r).val])

\* C2: for every requested identifier that is missing from the catalog,
\* from the content table, or from both, the post page is the not-found
\* view.
C2_NotFoundWhenAbsent ==
    \A r \in Requests :
        (PostRendered(r)
           /\ (~HasRecord(useParams(r)) \/ ~HasContent(useParams(r))))
        => view[r] = NotFoundView

\* C3: any two requests that both end in not-found show the same view,
\* whatever their identifiers and whichever of record and body was missing.
C3_SingleNotFound ==
    \A r1, r2 \in Requests :
        (PostRendered(r1) /\ PostRendered(r2)
           /\ view[r1].kind = "notFound" /\ view[r2].kind = "notFound")
        => view[r1] = view[r2]

\* Two not-found pages for different identifiers: one has a record and no
\* body, the other has neither.
C3_Witness ==
    \E r1, r2 \in Requests :
        /\ PostRendered(r1) /\ PostRendered(r2)
        /\ view[r1].kind = "notFound" /\ view[r2].kind = "notFound"
        /\ useParams(r1) # useParams(r2)
        /\ HasRecord(useParams(r1)) /\ ~HasContent(useParams(r1))
        /\ ~HasRecord(useParams(r2)) /\ ~HasContent(useParams(r2))

\* C4: for every routing input, a string or none, the rendered post page is
\* the found view or the not-found view, never an error or a third outcome.
C4_TwoOutcomes ==
    \A r \in Requests :
        PostRendered(r) => view[r].kind \in {"found", "notFound"}

\* One request rendered with no identifier, the other with an identifier
\* unknown to both tables.
C4_Witness ==
    \E r1, r2 \in Requests :
        /\ PostRendered(r1) /\ useParams(r1) = Undefined
        /\ PostRendered(r2) /\ useParams(r2) = Str("does-not-exist")
        /\ ~HasRecord(useParams(r2)) /\ ~HasContent(useParams(r2))

\* C5: with exactly one record marked featured, the listing's featured value
\* is that record and its rest is every other record in catalog order.
C5_OneFeatured ==
    \A r \in Requests :
        (ListingRendered(r) /\ Cardinality(FeaturedAt) = 1)
        => /\ view[r].featured = catalog[MinOf(FeaturedAt)]
           /\ view[r].rest = RemoveAt(catalog, MinOf(FeaturedAt))

\* The listing of [A, B (featured), C] is rendered: featured B, rest [A, C].
C5_Witness ==
    \E r \in Requests :
        /\ ListingRendered(r)
        /\ catalog = ScenarioCatalog
        /\ view[r].featured = ScenarioCatalog[2]
        /\ view[r].rest = <<ScenarioCatalog[1], ScenarioCatalog[3]>>

\* C6: with no record marked featured, the listing's featured value is
\* absent and its rest is the whole catalog in unchanged order.
C6_NoFeatured ==
    \A r \in Requests :
        (ListingRendered(r) /\ FeaturedAt = {})
        => view[r].featured = Undefined /\ view[r].rest = catalog

\* A listing rendered from a catalog of two records, one with the flag
\* false and one with the flag omitted.
C6_Witness ==
    \E r \in Requests :
        /\ ListingRendered(r)
        /\ FeaturedAt = {}
        /\ Len(catalog) = 2
        /\ \E i, j \in DOMAIN catalog :
              "featured" \in DOMAIN catalog[i] /\ "featured" \notin DOMAIN catalog[j]

\* C7: with more than one record marked featured, the listing's featured
\* value is the first of them and every other marked record is in the rest.
C7_FirstMatchWins ==
    \A r \in Requests :
        (ListingRendered(r) /\ Cardinality(FeaturedAt) > 1)
        => /\ view[r].featured = catalog[MinOf(FeaturedAt)]
           /\ \A i \in FeaturedAt \ {MinOf(FeaturedAt)} :
                 catalog[i] \in Elements(view[r].rest)

\* C8: two evaluations of the post page for the same identifier, against
\* unchanged tables, give the same view.
C8_Idempotent ==
    \A r1, r2 \in Requests :
        (PostRendered(r1) /\ PostRendered(r2) /\ TablesUnchanged
           /\ useParams(r1) = useParams(r2))
        => view[r1] = view[r2]

\* Two different requests have rendered the post page of the same
\* identifier, a resolved one.
C8_Witness ==
    \E r1, r2 \in Requests :
        /\ r1 # r2
        /\ PostRendered(r1) /\ PostRendered(r2)
        /\ useParams(r1) = useParams(r2)
        /\ view[r1].kind = "found"

\* C9: after any sequence of post-page and listing evaluations the catalog
\* and the content table are the ones the process started with.
C9_TablesImmutable == TablesUnchanged

\* A listing with a featured record and a resolved post page have both been
\* rendered.
C9_Witness ==
    \E r1, r2 \in Requests :
        /\ ListingRendered(r1) /\ FeaturedAt # {}
        /\ PostRendered(r2) /\ view[r2].kind = "found"

\* C10: under any interleaving of page renders, each rendered page equals
\* the page its route yields when rendered alone.
C10_Independent ==
    \A r \in Requests :
        view[r].kind # "none" => view[r] = PageAlone(route[r])

\* Two requests are rendered at once, a post page and a listing.
C10_Witness ==
    \E r1, r2 \in Requests :
        /\ PostRendered(r1) /\ view[r1].kind = "found"
        /\ ListingRendered(r2) /\ Len(view[r2].cards) = Len(blogPosts)

\* The process runs on the shipped tables.
ShippedTables == catalog = blogPosts /\ contentTable = blogContent

\* C11: no two records of the shipped catalog have the same id.
C11_ShippedIdsUnique ==
    catalog = blogPosts
    => \A i, j \in DOMAIN catalog : catalog[i].id = catalog[j].id => i = j

\* The listing of the shipped catalog is rendered, one card per record.
C11_Witness ==
    \E r \in Requests :
        /\ ShippedTables /\ ListingRendered(r)
        /\ Len(catalog) > 1
        /\ Len(view[r].cards) = Len(catalog)

\* C12: for any identifier string the content lookup of the post page gives
\* the stored body when the identifier is a key of the content table and
\* undefined otherwise, never a third value.
C12_ContentLookupBodyOrAbsent ==
    \A r \in Requests :
        (PostRendered(r) /\ useParams(r).type = "string")
        => ContentLookup(useParams(r), contentTable)
             = IF HasContent(useParams(r))
               THEN Str(contentTable[useParams(r).val])
               ELSE Undefined

\* C13: for any identifier the catalog lookup of the post page gives a
\* record of the catalog whose id is the identifier when there is one and
\* undefined otherwise, and it leaves the tables as they were.
C13_CatalogLookup ==
    \A r \in Requests :
        PostRendered(r)
        => /\ HasRecord(useParams(r))
                => /\ CatalogLookup(useParams(r), catalog) \in Elements(catalog)
                   /\ CatalogLookup(useParams(r), catalog).id = useParams(r).val
           /\ ~HasRecord(useParams(r))
                => CatalogLookup(useParams(r), catalog) = Undefined
           /\ view[r].kind = "found"
                => view[r].post = CatalogLookup(useParams(r), catalog)
           /\ TablesUnchanged

\* Two post pages are rendered, one for an identifier with a record and one
\* for an identifier without.
C13_Witness ==
    \E r1, r2 \in Requests :
        /\ PostRendered(r1) /\ HasRecord(useParams(r1))
        /\ view[r1].kind = "found"
        /\ PostRendered(r2) /\ useParams(r2).type = "string"
        /\ ~HasRecord(useParams(r2))

\* C14: in the shipped data the keys of the content table are exactly the
\* ids of the catalog records.
C14_ShippedTablesConsistent ==
    ShippedTables
    => DOMAIN contentTable = { catalog[i].id : i \in DOMAIN catalog }

\* On the shipped tables the post page of a catalog record has been
\* resolved.
C14_Witness ==
    \E r \in Requests :
        /\ ShippedTables /\ PostRendered(r)
        /\ view[r].kind = "found"
        /\ view[r].post \in Elements(blogPosts)

\* C15: on the shipped tables the identifier "sum-check" resolves to the
\* found view whose record has the title "Introduction to the Sum-Check
\* Protocol" and whose body begins with "### TL;DR" (a shipped body is
\* represented by its opening words, here its whole first line).
C15_SumCheckScenario ==
    \A r \in Requests :
        (ShippedTables /\ PostRendered(r) /\ useParams(r) = Str("sum-check"))
        => /\ view[r].kind = "found"
           /\ view[r].post.title = "Introduction to the Sum-Check Protocol"
           /\ view[r].content = Str("### TL;DR")

\* The post page of "sum-check" is rendered on the shipped tables.
C15_Witness ==
    \E r \in Requests :
        /\ ShippedTables /\ PostRendered(r)
        /\ useParams(r) = Str("sum-check")
        /\ view[r].kind = "found"
        /\ view[r].post.id = "sum-check"

\* C16: at most one record of the shipped catalog is marked featured.
C16_ShippedAtMostOneFeatured ==
    catalog = blogPosts => Cardinality(FeaturedAt) <= 1

\* The listing of the shipped catalog is rendered with its featured record.
C16_Witness ==
    \E r \in Requests :
        /\ ShippedTables /\ ListingRendered(r)
        /\ FeaturedAt # {}
        /\ view[r].featured = catalog[MinOf(FeaturedAt)]

\* C17: whenever a request has ended in not-found, its view offers a link
\* to "/", and following it takes the request to the listing route in one
\* step.
C17_NotFoundOffersReturn ==
    \A r \in Requests :
        (PostRendered(r) /\ view[r].kind = "notFound")
        => /\ view[r].backLink = "/"
           /\ ENABLED (FollowBackLink(r) /\ route'[r] = IndexRoute)

\* A request for an identifier unknown to both tables has ended in
\* not-found.
C17_Witness ==
    \E r \in Requests :
        /\ PostRendered(r) /\ view[r] = NotFoundView
        /\ useParams(r) = Str("does-not-exist")
        /\ ~HasRecord(useParams(r))

\* C18: every request that has a route and no view yet eventually has its
\* view, the found or not-found post page or the listing, and its render is
\* enabled whatever state the other requests are in.
C18_EveryRequestTerminates ==
    /\ [](\A r \in Requests : ENABLED (RenderPost(r) \/ RenderIndex(r)))
    /\ \A r \in Requests :
          (view[r].kind = "none")
             ~> (view[r].kind \in {"found", "notFound", "listing"})

\* Both requests have completed, one a not-found post page and one a
\* listing.
C18_Witness ==
    \E r1, r2 \in Requests :
        /\ PostRendered(r1) /\ view[r1].kind = "notFound"
        /\ ListingRendered(r2) /\ Len(view[r2].rest) = Len(catalog)
        /\ Len(catalog) > 0

\* C19: the found/not-found decision does not depend on the stored body: an
\* identifier with a catalog record and a content entry whose body is the
\* empty string resolves to the found view.
C19_EmptyBodyStillFound ==
    \A r \in Requests :
        (PostRendered(r) /\ HasRecord(useParams(r)) /\ HasContent(useParams(r))
           /\ contentTable[useParams(r).val] = "")
        => view[r].kind = "found"

\* The records of the catalog not marked featured, in catalog order.
Unmarked ==
    SelectSeq(catalog,
              LAMBDA p : ~("featured" \in DOMAIN p /\ p.featured = TRUE))

\* The records shown by the cards of a listing, in display order.
Displayed(v) == [i \in 1..Len(v.cards) |-> v.cards[i].post]

\* C20: the listing displays the featured record, if any, first and then
\* the remainder records in catalog order.
C20_FeaturedFirst ==
    \A r \in Requests :
        ListingRendered(r)
        => /\ Displayed(view[r])
                = (IF FeaturedAt # {} THEN <<catalog[MinOf(FeaturedAt)]>>
                   ELSE <<>>) \o view[r].rest
           /\ view[r].rest = Unmarked

\* The listing of [A, B (featured), C] is displayed in the order B, A, C.
C20_Witness ==
    \E r \in Requests :
        /\ ListingRendered(r)
        /\ catalog = ScenarioCatalog
        /\ Displayed(view[r])
             = <<ScenarioCatalog[2], ScenarioCatalog[1], ScenarioCatalog[3]>>

\* C21: the listing loses and duplicates nothing: every record of the
\* catalog is shown by exactly one card, so there are as many cards as
\* records.
C21_NothingLostOrDuplicated ==
    \A r \in Requests :
        ListingRendered(r)
        => /\ Len(view[r].cards) = Len(catalog)
           /\ \A i \in DOMAIN catalog :
                 Cardinality({ k \in DOMAIN view[r].cards :
                                 view[r].cards[k].post = catalog[i] }) = 1

\* C22: the remainder holds no record whose flag is true, and a record
\* whose flag is omitted, like one whose flag is false, is never the
\* featured value and is always in the remainder.
C22_RemainderUnflagged ==
    \A r \in Requests :
        ListingRendered(r)
        => /\ \A k \in DOMAIN view[r].rest :
                 ~("featured" \in DOMAIN view[r].rest[k]
                     /\ view[r].rest[k].featured = TRUE)
           /\ \A i \in DOMAIN catalog \ FeaturedAt :
                 /\ view[r].featured # catalog[i]
                 /\ catalog[i] \in Elements(view[r].rest)

\* A listing rendered from a catalog of a flagged record and a record
\* without the flag.
C22_Witness ==
    \E r \in Requests :
        /\ ListingRendered(r)
        /\ FeaturedAt # {}
        /\ \E i \in DOMAIN catalog :
              /\ "featured" \notin DOMAIN catalog[i]
              /\ view[r].rest = <<catalog[i]>>

\* C23: every card of a listing links to /blog/<id> of its own record; on
\* the shipped tables the post page that link leads to is the found view,
\* and so is every rendered post page of a shipped record's id.
C23_CardsLeadToFound ==
    \A r \in Requests :
        /\ ListingRendered(r)
             => \A k \in DOMAIN view[r].cards :
                   /\ view[r].cards[k].to = <<"blog", view[r].cards[k].post.id>>
                   /\ ShippedTables
                        => BlogPost(CardTarget(view[r].cards[k].to).slug,
                                    catalog, contentTable).kind = "found"
        /\ (ShippedTables /\ PostRendered(r) /\ HasRecord(useParams(r)))
             => view[r].kind = "found"

\* On the shipped tables the card of the featured record "cctp-rs" was
\* followed and its post page rendered.
C23_Witness ==
    \E r \in Requests :
        /\ ShippedTables /\ PostRendered(r)
        /\ useParams(r) = Str("cctp-rs")
        /\ view[r].kind = "found"
        /\ view[r].post = blogPosts[1]

\* C24: whenever the post page is the found view, the id of its record is
\* the requested identifier and its body is the entry the content table
\* stores under that same identifier.
C24_FoundPairSameKey ==
    \A r \in Requests :
        (PostRendered(r) /\ view[r].kind = "found")
        => /\ useParams(r).type = "string"
           /\ view[r].post.id = useParams(r).val
           /\ HasContent(useParams(r))
           /\ view[r].content = Str(contentTable[useParams(r).val])

\* C25: when the route carries no identifier, the post page is the
\* not-found view and the content table is not indexed: the content lookup
\* is undefined whatever the table holds.
C25_NoSlugNotFound ==
    \A r \in Requests :
        (PostRendered(r) /\ useParams(r) = Undefined)
        => /\ view[r] = NotFoundView
           /\ ContentLookup(useParams(r), contentTable) = Undefined

\* A post page rendered without identifier over a content table that has
\* an entry under the key "undefined".
C25_Witness ==
    \E r \in Requests :
        /\ PostRendered(r) /\ useParams(r) = Undefined
        /\ "undefined" \in DOMAIN contentTable
        /\ view[r].kind = "notFound"

\* The positions of the cards of a listing shown in the featured
\* presentation.
FeaturedCards(cards) == { k \in DOMAIN cards : cards[k].featured }

\* C26: for every catalog, also one with several marked records, a listing
\* shows at most one card in the featured presentation, that card is of the
\* first marked record in catalog order, and every card of the remainder is
\* in the normal presentation.
C26_AtMostOneFeaturedCard ==
    \A r \in Requests :
        ListingRendered(r)
        => LET cards == view[r].cards
               rest == view[r].rest
               off == Len(cards) - Len(rest)
           IN  /\ Cardinality(FeaturedCards(cards)) <= 1
               /\ \A k \in FeaturedCards(cards) :
                      /\ FeaturedAt # {}
                      /\ cards[k].post = catalog[MinOf(FeaturedAt)]
               /\ off >= 0
               /\ \A i \in 1..Len(rest) :
                      /\ cards[off + i].post = rest[i]
                      /\ cards[off + i].featured = FALSE

\* A listing over a catalog with two marked records shows one card in the
\* featured presentation.
C26_Witness ==
    \E r \in Requests :
        /\ ListingRendered(r)
        /\ Cardinality(FeaturedAt) >= 2
        /\ Cardinality(FeaturedCards(view[r].cards)) = 1

\* The positions of the catalog records whose id is the string slug.
IdMatches(slug) ==
    { i \in DOMAIN catalog : slug.type = "string" /\ catalog[i].id = slug.val }

\* Two catalog records carry the same id.
DuplicateIds ==
    \E i, j \in DOMAIN catalog : i # j /\ catalog[i].id = catalog[j].id

\* C27: over a catalog where two records have the same id, the catalog
\* lookup of the post page returns, for every requested identifier, the
\* first record in catalog order with that id (none when no record has it),
\* and a found view shows that record.
C27_DuplicateIdFirstWins ==
    \A r \in Requests :
        (DuplicateIds /\ PostRendered(r))
        => LET slug == useParams(r)
               post == CatalogLookup(slug, catalog)
           IN  /\ post = IF IdMatches(slug) = {} THEN Undefined
                         ELSE catalog[MinOf(IdMatches(slug))]
               /\ view[r].kind = "found"
                  => view[r].post = catalog[MinOf(IdMatches(slug))]

\* A found post page for an identifier that two catalog records carry; the
\* two records differ and the first is shown.
C27_Witness ==
    \E r \in Requests :
        /\ PostRendered(r)
        /\ Cardinality(IdMatches(useParams(r))) >= 2
        /\ view[r].kind = "found"
        /\ view[r].post = catalog[1]
        /\ catalog[2] # catalog[1]

====
